---- MODULE Spec2Model ----
(***************************************************************************)
(* A model of zktraffic/cli/zk.py: the four printers (DefaultPrinter,      *)
(* UnpairedPrinter, CountPrinter, LatencyPrinter), each a worker thread,   *)
(* the sniffer thread that calls their handlers, and the main thread of    *)
(* main().                                                                 *)
(*                                                                         *)
(* Three threads run: main (mpc), the printer's run() (wpc) and the        *)
(* sniffer, which calls request_handler / reply_handler / event_handler    *)
(* one at a time (hpc).  Every step below is one stretch of code between   *)
(* two points where the other threads can observe or change shared state.  *)
(***************************************************************************)
EXTENDS Integers, Sequences, FiniteSets, TLC

\* ------------------------------------------------------------------ bounds
MaxMsgs == 3
MaxCount == 2
MaxPairs == 2

\* ------------------------------------------------------------------ inputs
CLOSE == "CLOSE"

NoMsg == [id |-> 0, kind |-> "none", client |-> "c1", xid |-> 0, opcode |-> "GET",
          timestamp |-> 0, path |-> <<>>]

VARIABLES
  env,                \* what the sniffer sees: any traffic, or requests then their replies
  engine,             \* which printer main() built (zk.py 431-445)
  loopback,           \* BasePrinter.loopback
  count,              \* CountPrinter.count / LatencyPrinter._count
  group_by,           \* CountPrinter.group_by / LatencyPrinter._group_by
  aggregation_depth,  \* CountPrinter.aggregation_depth / LatencyPrinter._aggregation_depth
  requests_by_client, \* client -> (xid -> list of requests); both defaultdicts
  replies,            \* DefaultPrinter._replies / LatencyPrinter._replies (deque)
  messages,           \* UnpairedPrinter._messages (deque)
  seen,               \* CountPrinter.seen / LatencyPrinter._seen
  requests,           \* CountPrinter.requests (defaultdict(int))
  latencies_by_group, \* LatencyPrinter._latencies_by_group (defaultdict(list))
  report_done,        \* LatencyPrinter._report_done
  wpc,                \* the position of the printer thread in run()
  wrep,               \* run()'s local rep / msg
  wreqs,              \* run()'s local reqs
  wtmp,               \* the value of self._seen read by `self._seen += 1`
  hpc,                \* the position of the sniffer thread inside a handler
  hreq,               \* the request being added by Requests.add
  hstale,             \* the list Requests.add fetched has been popped meanwhile
  sniffer,            \* the sniffer thread: new, running, stopping, dead
  mpc,                \* the position of the main thread in main()
  interrupted,        \* a KeyboardInterrupt was raised in main's try block
  sinkBroken,         \* sys.stdout raises IOError from now on
  stdout,             \* every call of write / sys.stdout.write, in order
  summaries,          \* the final summaries printed, in order
  hist                \* every message the sniffer passed to a handler, in order

vars == <<env, engine, loopback, count, group_by, aggregation_depth, requests_by_client,
          replies, messages, seen, requests, latencies_by_group, report_done,
          wpc, wrep, wreqs, wtmp, hpc, hreq, hstale, sniffer, mpc, interrupted,
          sinkBroken, stdout, summaries, hist>>

cfgVars == <<env, engine, loopback, count, group_by, aggregation_depth>>
tableVars == <<requests_by_client, replies, messages>>
aggVars == <<seen, requests, latencies_by_group, report_done>>
workerVars == <<wpc, wrep, wreqs, wtmp>>
handlerVars == <<hpc, hreq, hstale>>
mainVars == <<mpc, interrupted>>
outVars == <<stdout, summaries>>

\* ------------------------------------------------------- dicts and helpers
EmptyDict == <<>>

DictSet(d, k, v) == [x \in DOMAIN d \cup {k} |-> IF x = k THEN v ELSE d[x]]

DictDel(d, k) == [x \in DOMAIN d \ {k} |-> d[x]]

\* defaultdict.__getitem__: the value at k, the default when k is missing
DictGet(d, k, default) == IF k \in DOMAIN d THEN d[k] ELSE default

SeqToSet(s) == {s[i] : i \in 1..Len(s)}

\* msg.parent_path(depth): the first depth components of the path
parent_path(msg, depth) == SubSeq(msg.path, 1, IF depth < Len(msg.path) THEN depth ELSE Len(msg.path))

\* key_of: a key is a sequence, a path's components or the one name / client
key_of(msg, group, depth) ==
  CASE group = "path" -> IF depth = 0 THEN msg.path ELSE parent_path(msg, depth)
    [] group = "type" -> <<msg.opcode>>
    [] group = "client" -> <<msg.client>>

\* ----------------------------------------------------------------- writes
\* One entry of stdout: who wrote (the thread), what (the messages of one
\* write(*msgs) call) and whether the sink took it.
WriteRec(who, msgs, ok) == [who |-> who, msgs |-> msgs, ok |-> ok]

\* BasePrinter.simple_write / colored_write.  The downstream pipe can close at
\* any time; the program sees it at its next write, which raises IOError, and
\* so does every write after it.
SinkCanBreak == engine \in {"Default", "Unpaired"}

Write(who, msgs) ==
  \E ok \in (IF sinkBroken THEN {FALSE} ELSE IF SinkCanBreak THEN BOOLEAN ELSE {TRUE}) :
    /\ stdout' = Append(stdout, WriteRec(who, msgs, ok))
    /\ sinkBroken' = ~ok

\* ------------------------------------------------------------------- Init
InitCommon ==
  /\ requests_by_client = EmptyDict
  /\ replies = <<>>
  /\ messages = <<>>
  /\ seen = 0
  /\ requests = EmptyDict
  /\ latencies_by_group = EmptyDict
  /\ report_done = FALSE
  /\ wpc = "new"
  /\ wrep = NoMsg
  /\ wreqs = <<>>
  /\ wtmp = 0
  /\ hpc = "idle"
  /\ hreq = NoMsg
  /\ hstale = FALSE
  /\ sniffer = "new"
  /\ mpc = "start_printer"
  /\ interrupted = FALSE
  /\ sinkBroken = FALSE
  /\ stdout = <<>>
  /\ summaries = <<>>
  /\ hist = <<>>

InitDefault ==
  /\ env = "any"
  /\ engine = "Default"
  /\ loopback \in BOOLEAN
  /\ count = 0
  /\ group_by = "path"
  /\ aggregation_depth = 0
  /\ InitCommon

InitUnpaired ==
  /\ env = "any"
  /\ engine = "Unpaired"
  /\ loopback = FALSE
  /\ count = 0
  /\ group_by = "path"
  /\ aggregation_depth = 0
  /\ InitCommon

\* ------------------------------------------------------------ the sniffer
Running == mpc # "exited"

Limit == IF env = "pairs" THEN 2 * MaxPairs ELSE MaxMsgs

CanDeliver ==
  /\ Running
  /\ sniffer \in {"running", "stopping"}
  /\ hpc = "idle"
  /\ Len(hist) < Limit

NextId == Len(hist) + 1

\* The messages the sniffer can hand over next.  Requests and replies come
\* from three (client, xid) pairs, two of one client and two of one xid (the
\* Latency printer, whose steps are finer, is run with the two pairs of one
\* xid); a request's path goes with its pair.  A timestamp is the delivery
\* index (a clock that runs forward) or, for a reply of the first pair to the
\* Latency printer, 0 (a clock that was set back).
Keys ==
  IF engine = "Latency"
  THEN {<<"c1", 1>>, <<"c2", 1>>}
  ELSE {<<"c1", 1>>, <<"c1", 2>>, <<"c2", 1>>}

PathOf(k) == IF k = <<"c1", 1>> THEN <<"a", "b">> ELSE <<"a", "c">>

Msg(kind, client, xid, opcode, ts, path) ==
  [id |-> NextId, kind |-> kind, client |-> client, xid |-> xid, opcode |-> opcode,
   timestamp |-> ts, path |-> path]

RequestMsgs ==
  {Msg("request", k[1], k[2], "GET", NextId, PathOf(k)) : k \in Keys}
    \cup {Msg("request", "c1", 1, CLOSE, NextId, <<"a", "b">>)}

ReplyMsgs ==
  {Msg("reply", k[1], k[2], "GET", NextId, PathOf(k)) : k \in Keys}
    \cup (IF engine = "Latency"
          THEN {Msg("reply", "c1", 1, "GET", 0, <<"a", "b">>)}
          ELSE {})

EventMsgs == {Msg("event", "c1", 0, "WATCH", NextId, <<"a", "c">>)}

\* what an IOError raised inside a handler does to the sniffer thread is not
\* in this file: the thread either survives it or ends
HandlerWrite(msg) ==
  /\ Write("sniffer", <<msg>>)
  /\ IF sinkBroken' THEN sniffer' \in {sniffer, "dead"} ELSE sniffer' = sniffer

\* Requests.add, first half: self.requests_by_xid[req.xid] fetches the list
\* (both defaultdicts create what is missing)
RequestsFetch(req) ==
  /\ requests_by_client' =
       LET byxid == DictGet(requests_by_client, req.client, EmptyDict)
       IN DictSet(requests_by_client, req.client,
                  DictSet(byxid, req.xid, DictGet(byxid, req.xid, <<>>)))
  /\ hpc' = "adding"
  /\ hreq' = req
  /\ hstale' = FALSE

\* Requests.add, second half: .append(req) on the list fetched; a list that
\* run() popped in between is no longer in the table
RequestsAppendLost == hstale

RequestsAppend ==
  /\ Running
  /\ hpc = "adding"
  /\ requests_by_client' =
       IF RequestsAppendLost
       THEN requests_by_client
       ELSE DictSet(requests_by_client, hreq.client,
                    DictSet(requests_by_client[hreq.client], hreq.xid,
                            Append(requests_by_client[hreq.client][hreq.xid], hreq)))
  /\ hpc' = "idle"
  /\ hreq' = NoMsg
  /\ hstale' = FALSE
  /\ UNCHANGED <<cfgVars, replies, messages, aggVars, workerVars, sniffer, mainVars,
                 sinkBroken, outVars, hist>>

\* RequestsPopped that falls back on another client's list under the xid
RequestsPoppedAnyClient(client, xid) ==
  LET own == DictGet(DictGet(requests_by_client, client, EmptyDict), xid, <<>>)
      others == {c \in DOMAIN requests_by_client : xid \in DOMAIN requests_by_client[c]}
  IN IF own # <<>> \/ others = {}
     THEN own
     ELSE requests_by_client[CHOOSE c \in others : TRUE][xid]

\* Requests.pop(xid) on self._requests_by_client[client]
RequestsPopped(client, xid) ==
  DictGet(DictGet(requests_by_client, client, EmptyDict), xid, <<>>)

\* RequestsAfterPop that leaves the list in the table
RequestsAfterPopKept(client, xid) == requests_by_client

RequestsAfterPop(client, xid) ==
  DictSet(requests_by_client, client,
          DictDel(DictGet(requests_by_client, client, EmptyDict), xid))

PopMarksStale(client, xid) ==
  IF hpc = "adding" /\ hreq.client = client /\ hreq.xid = xid THEN TRUE ELSE hstale

\* ------------------------------------------------- DefaultPrinter handlers
\* IsClose that takes every request for a close
IsCloseAlways(req) == TRUE

\* IsClose that takes no request for a close
IsCloseNever(req) == FALSE

IsClose(req) == req.opcode = CLOSE

DefaultPrinter_request_handler(req) ==
  /\ engine = "Default"
  /\ CanDeliver
  /\ hist' = Append(hist, req)
  /\ IF IsClose(req)
     THEN /\ HandlerWrite(req)
          /\ UNCHANGED <<requests_by_client, handlerVars>>
     ELSE /\ RequestsFetch(req)
          /\ UNCHANGED <<stdout, sinkBroken, sniffer>>
  /\ UNCHANGED <<cfgVars, replies, messages, aggVars, workerVars, mainVars, summaries>>

DefaultPrinter_reply_handler(rep) ==
  /\ engine = "Default"
  /\ CanDeliver
  /\ hist' = Append(hist, rep)
  /\ replies' = Append(replies, rep)
  /\ UNCHANGED <<cfgVars, requests_by_client, messages, aggVars, workerVars, handlerVars,
                 sniffer, mainVars, sinkBroken, outVars>>

DefaultPrinter_event_handler(evt) ==
  /\ engine = "Default"
  /\ CanDeliver
  /\ hist' = Append(hist, evt)
  /\ HandlerWrite(evt)
  /\ UNCHANGED <<cfgVars, tableVars, aggVars, workerVars, handlerVars, mainVars,
                 summaries>>

\* ------------------------------------------------------ DefaultPrinter.run
\* GroupOf with the reply written first
GroupOfReplyFirst(reqs, rep) ==
  IF loopback THEN <<rep>> \o SubSeq(reqs, 1, 1) ELSE <<rep>> \o reqs

\* GroupOf without the loopback hack
GroupOfAll(reqs, rep) == reqs \o <<rep>>

\* msgs = reqs[0:1] + [rep] if self.loopback else reqs + [rep]
GroupOf(reqs, rep) == IF loopback THEN SubSeq(reqs, 1, 1) \o <<rep>> ELSE reqs \o <<rep>>

\* AfterWrite without the break
AfterWriteGoOn == "loop"

\* after an IOError the loop breaks
AfterWrite == IF sinkBroken' THEN "done" ELSE "loop"

\* One iteration of the loop that finds a reply: popleft, pop the requests of
\* (rep.client, rep.xid), write the group unless there is none.  The steps of
\* one iteration touch the deque's head and one key of the table, which the
\* handlers touch only in Requests.add, so the iteration is taken as one step
\* and Requests.add as two.
DefaultPrinter_run ==
  /\ engine = "Default"
  /\ Running
  /\ wpc = "loop"
  /\ replies # <<>>
  /\ LET rep == Head(replies)
         reqs == RequestsPopped(rep.client, rep.xid)
     IN /\ replies' = Tail(replies)
        /\ requests_by_client' = RequestsAfterPop(rep.client, rep.xid)
        /\ hstale' = PopMarksStale(rep.client, rep.xid)
        /\ IF reqs = <<>>
           THEN UNCHANGED <<stdout, sinkBroken, wpc>>
           ELSE /\ Write("printer", GroupOf(reqs, rep))
                /\ wpc' = AfterWrite
  /\ UNCHANGED <<cfgVars, messages, aggVars, wrep, wreqs, wtmp, hpc, hreq, sniffer,
                 mainVars, summaries, hist>>

\* ------------------------------------------------------- UnpairedPrinter
UnpairedPrinter_handler(msg) ==
  /\ engine = "Unpaired"
  /\ CanDeliver
  /\ hist' = Append(hist, msg)
  /\ messages' = Append(messages, msg)
  /\ UNCHANGED <<cfgVars, requests_by_client, replies, aggVars, workerVars, handlerVars,
                 sniffer, mainVars, sinkBroken, outVars>>

UnpairedPrinter_request_handler(req) == UnpairedPrinter_handler(req)

UnpairedPrinter_reply_handler(rep) == UnpairedPrinter_handler(rep)

UnpairedPrinter_event_handler(evt) == UnpairedPrinter_handler(evt)

\* UnpairedPrinter_run with pop() for popleft(): the newest message first
UnpairedPrinter_runPopRight ==
  /\ engine = "Unpaired"
  /\ Running
  /\ wpc = "loop"
  /\ messages # <<>>
  /\ messages' = SubSeq(messages, 1, Len(messages) - 1)
  /\ Write("printer", <<messages[Len(messages)]>>)
  /\ wpc' = AfterWrite
  /\ UNCHANGED <<cfgVars, requests_by_client, replies, aggVars, wrep, wreqs, wtmp,
                 handlerVars, sniffer, mainVars, summaries, hist>>

\* one iteration of the loop that finds a message: popleft, write
UnpairedPrinter_run ==
  /\ engine = "Unpaired"
  /\ Running
  /\ wpc = "loop"
  /\ messages # <<>>
  /\ messages' = Tail(messages)
  /\ Write("printer", <<Head(messages)>>)
  /\ wpc' = AfterWrite
  /\ UNCHANGED <<cfgVars, requests_by_client, replies, aggVars, wrep, wreqs, wtmp,
                 handlerVars, sniffer, mainVars, summaries, hist>>

\* ------------------------------------------------------------------- main
\* p.start()
MainStartPrinter ==
  /\ mpc = "start_printer"
  /\ mpc' = "start_sniffer"
  /\ wpc' = "loop"
  /\ UNCHANGED <<cfgVars, tableVars, aggVars, wrep, wreqs, wtmp, handlerVars, sniffer,
                 interrupted, sinkBroken, outVars, hist>>

\* sniffer.start()
MainStartSniffer ==
  /\ mpc = "start_sniffer"
  /\ mpc' = "polling"
  /\ sniffer' = "running"
  /\ UNCHANGED <<cfgVars, tableVars, aggVars, workerVars, handlerVars, interrupted,
                 sinkBroken, outVars, hist>>

WorkerAlive == wpc \notin {"new", "done", "crashed"}

\* while p.isAlive(): the loop ends once run() has returned
MainPollDone ==
  /\ mpc = "polling"
  /\ ~WorkerAlive
  /\ mpc' = "stop"
  /\ UNCHANGED <<cfgVars, tableVars, aggVars, workerVars, handlerVars, sniffer,
                 interrupted, sinkBroken, outVars, hist>>

\* KeyboardInterrupt / SystemExit inside the try block: p.cancel() is next.
\* BasePrinter.cancel is `pass` (Default, Unpaired and Count do not override
\* it), so for them the handler of the interrupt is over in the same step.
AfterInterrupt == IF engine = "Latency" THEN "cancel" ELSE "stop"

Interrupt ==
  /\ mpc = "polling"
  /\ mpc' = AfterInterrupt
  /\ interrupted' = TRUE
  /\ UNCHANGED <<cfgVars, tableVars, aggVars, workerVars, handlerVars, sniffer,
                 sinkBroken, outVars, hist>>

\* sniffer.stop(): asks the sniffer thread to end
MainStopSniffer ==
  /\ mpc = "stop"
  /\ mpc' = "join"
  /\ sniffer' = IF sniffer = "running" THEN "stopping" ELSE sniffer
  /\ UNCHANGED <<cfgVars, tableVars, aggVars, workerVars, handlerVars, interrupted,
                 sinkBroken, outVars, hist>>

\* the sniffer thread ends after stop(), between two handler calls
SnifferExit ==
  /\ Running
  /\ sniffer = "stopping"
  /\ hpc = "idle"
  /\ sniffer' = "dead"
  /\ UNCHANGED <<cfgVars, tableVars, aggVars, workerVars, handlerVars, mainVars,
                 sinkBroken, outVars, hist>>

\* while sniffer.isAlive(): sleep; then sys.stdout.write("\033[0m") with its
\* IOError ignored; main returns and the process ends, the daemon printer
\* thread with it
MainJoinSniffer ==
  /\ mpc = "join"
  /\ sniffer = "dead"
  /\ mpc' = "exited"
  /\ UNCHANGED <<cfgVars, tableVars, aggVars, workerVars, handlerVars, sniffer,
                 interrupted, sinkBroken, outVars, hist>>

NextMain ==
  \/ MainStartPrinter
  \/ MainStartSniffer
  \/ MainPollDone
  \/ Interrupt
  \/ MainStopSniffer
  \/ SnifferExit
  \/ MainJoinSniffer

\* ---------------------------------------------------------- CountPrinter
\* Tallied with = for +=
TalliedSet(d, key) == DictSet(d, key, 1)

\* self.requests[key] += 1
Tallied(d, key) == DictSet(d, key, DictGet(d, key, 0) + 1)

\* BudgetLeft that lets one sample more in
BudgetLeftOneMore == seen <= count

\* _add's guard: `if self.seen >= self.count: return`
BudgetLeft == seen < count

\* _add, up to and including `self.requests[key] += 1`
CountPrinter_add(msg) ==
  /\ engine = "Count"
  /\ CanDeliver
  /\ hist' = Append(hist, msg)
  /\ IF BudgetLeft
     THEN /\ requests' = Tallied(requests, key_of(msg, group_by, aggregation_depth))
          /\ hpc' = "counting"
     ELSE UNCHANGED <<requests, hpc>>
  /\ UNCHANGED <<cfgVars, tableVars, seen, latencies_by_group, report_done, workerVars,
                 hreq, hstale, sniffer, mainVars, sinkBroken, outVars>>

\* _add's last line: `self.seen += 1` (only the sniffer thread writes seen)
CountPrinter_add_seen ==
  /\ engine = "Count"
  /\ Running
  /\ hpc = "counting"
  /\ seen' = seen + 1
  /\ hpc' = "idle"
  /\ UNCHANGED <<cfgVars, tableVars, requests, latencies_by_group, report_done,
                 workerVars, hreq, hstale, sniffer, mainVars, sinkBroken, outVars, hist>>

CountPrinter_request_handler(req) == CountPrinter_add(req)

CountPrinter_event_handler(evt) == CountPrinter_add(evt)

\* reply_handler: pass
CountPrinter_reply_handler(rep) ==
  /\ engine = "Count"
  /\ CanDeliver
  /\ hist' = Append(hist, rep)
  /\ UNCHANGED <<cfgVars, tableVars, aggVars, workerVars, handlerVars, sniffer, mainVars,
                 sinkBroken, outVars>>

\* sorted(self.requests.items(), key=lambda item: item[1], reverse=True)
RECURSIVE SortedByTally(_)
SortedByTally(d) ==
  IF DOMAIN d = {}
  THEN <<>>
  ELSE LET k == CHOOSE x \in DOMAIN d : \A y \in DOMAIN d : d[y] <= d[x]
       IN <<<<k, d[k]>>>> \o SortedByTally(DictDel(d, k))

\* `while self.seen < self.count: sleep` is left
CountReached == seen >= count

\* run(): once the loop is left, the sorted tallies are printed and run() returns
CountPrinter_run ==
  /\ engine = "Count"
  /\ Running
  /\ wpc = "loop"
  /\ CountReached
  /\ summaries' = Append(summaries, SortedByTally(requests))
  /\ wpc' = "done"
  /\ UNCHANGED <<cfgVars, tableVars, aggVars, wrep, wreqs, wtmp, handlerVars, sniffer,
                 mainVars, sinkBroken, stdout, hist>>

\* -------------------------------------------------------- LatencyPrinter
LatencyPrinter_request_handler(req) ==
  /\ engine = "Latency"
  /\ CanDeliver
  /\ hist' = Append(hist, req)
  /\ IF ~IsClose(req)
     THEN RequestsFetch(req)
     ELSE UNCHANGED <<requests_by_client, handlerVars>>
  /\ UNCHANGED <<cfgVars, replies, messages, aggVars, workerVars, sniffer, mainVars,
                 sinkBroken, outVars>>

LatencyPrinter_reply_handler(rep) ==
  /\ engine = "Latency"
  /\ CanDeliver
  /\ hist' = Append(hist, rep)
  /\ replies' = Append(replies, rep)
  /\ UNCHANGED <<cfgVars, requests_by_client, messages, aggVars, workerVars, handlerVars,
                 sniffer, mainVars, sinkBroken, outVars>>

\* event_handler: pass
LatencyPrinter_event_handler(evt) ==
  /\ engine = "Latency"
  /\ CanDeliver
  /\ hist' = Append(hist, evt)
  /\ UNCHANGED <<cfgVars, tableVars, aggVars, workerVars, handlerVars, sniffer, mainVars,
                 sinkBroken, outVars>>

\* SampledRequest taking the newest request of the list
SampledRequestLast(reqs) == reqs[Len(reqs)]

\* the request the sample is taken from: req = reqs[0]
SampledRequest(reqs) == reqs[1]

\* latency = rep.timestamp - req.timestamp
Latency(req, rep) == rep.timestamp - req.timestamp

\* MatchedRequests looking the xid up under every client
MatchedRequestsAnyClient(rep) ==
  LET own == RequestsPopped(rep.client, rep.xid)
      others == {c \in DOMAIN requests_by_client : RequestsPopped(c, rep.xid) # <<>>}
  IN IF own # <<>> \/ others = {}
     THEN own
     ELSE RequestsPopped(CHOOSE c \in others : TRUE, rep.xid)

\* what Requests.pop gives wait_for_requests for a reply
MatchedRequests(rep) == RequestsPopped(rep.client, rep.xid)

\* wait_for_requests, one iteration up to self._latencies_by_group[key]: the
\* loop test, popleft, the pop of the requests and, on a match, the fetch of
\* the group's list, which the defaultdict creates empty when it is missing
LatencyPrinter_wait_match ==
  /\ engine = "Latency"
  /\ Running
  /\ wpc = "loop"
  /\ seen < count
  /\ replies # <<>>
  /\ LET rep == Head(replies)
         reqs == MatchedRequests(rep)
     IN /\ replies' = Tail(replies)
        /\ requests_by_client' = RequestsAfterPop(rep.client, rep.xid)
        /\ hstale' = PopMarksStale(rep.client, rep.xid)
        /\ IF reqs = <<>>
           THEN UNCHANGED <<latencies_by_group, workerVars>>
           ELSE LET key == key_of(SampledRequest(reqs), group_by, aggregation_depth)
                IN /\ latencies_by_group' =
                        DictSet(latencies_by_group, key, DictGet(latencies_by_group, key, <<>>))
                   /\ wrep' = rep
                   /\ wreqs' = reqs
                   /\ wpc' = "append"
                   /\ wtmp' = wtmp
  /\ UNCHANGED <<cfgVars, messages, seen, requests, report_done, hpc, hreq, sniffer,
                 mainVars, sinkBroken, outVars, hist>>

\* .append(latency), then the read of self._seen by `self._seen += 1`
LatencyPrinter_wait_append ==
  /\ engine = "Latency"
  /\ Running
  /\ wpc = "append"
  /\ LET key == key_of(SampledRequest(wreqs), group_by, aggregation_depth)
     IN latencies_by_group' =
          DictSet(latencies_by_group, key,
                  Append(latencies_by_group[key], Latency(SampledRequest(wreqs), wrep)))
  /\ wtmp' = seen
  /\ wpc' = "incr"
  /\ UNCHANGED <<cfgVars, tableVars, seen, requests, report_done, wrep, wreqs, handlerVars,
                 sniffer, mainVars, sinkBroken, outVars, hist>>

\* the write of `self._seen += 1`, then the status line
LatencyPrinter_wait_incr ==
  /\ engine = "Latency"
  /\ Running
  /\ wpc = "incr"
  /\ seen' = wtmp + 1
  /\ Write("printer", <<>>)
  /\ wpc' = "loop"
  /\ wrep' = NoMsg
  /\ wreqs' = <<>>
  /\ wtmp' = 0
  /\ UNCHANGED <<cfgVars, tableVars, requests, latencies_by_group, report_done,
                 handlerVars, sniffer, mainVars, summaries, hist>>

\* the loop test fails: wait_for_requests returns and run() calls report()
LatencyPrinter_wait_exit ==
  /\ engine = "Latency"
  /\ Running
  /\ wpc = "loop"
  /\ ~(seen < count)
  /\ wpc' = "report"
  /\ UNCHANGED <<cfgVars, tableVars, aggVars, wrep, wreqs, wtmp, handlerVars, sniffer,
                 mainVars, sinkBroken, outVars, hist>>

\* report(), `if self._report_done: return`: TRUE when the caller goes on
ReportGuard == ~report_done

\* report(), `if self._seen < self._count: self._seen = self._count`
ReportForcedSeen == IF seen < count THEN count ELSE seen

\* report(), the loop over the groups: sum(latencies) / len(latencies) raises
\* ZeroDivisionError on a group whose list is empty
ReportRaises == \E k \in DOMAIN latencies_by_group : latencies_by_group[k] = <<>>

\* report() by the printer thread, one step per shared access
LatencyPrinter_report_check ==
  /\ engine = "Latency"
  /\ Running
  /\ wpc = "report"
  /\ wpc' = IF ReportGuard THEN "report_seen" ELSE "done"
  /\ UNCHANGED <<cfgVars, tableVars, aggVars, wrep, wreqs, wtmp, handlerVars, sniffer,
                 mainVars, sinkBroken, outVars, hist>>

LatencyPrinter_report_seen ==
  /\ engine = "Latency"
  /\ Running
  /\ wpc = "report_seen"
  /\ seen' = ReportForcedSeen
  /\ wpc' = "report_print"
  /\ UNCHANGED <<cfgVars, tableVars, requests, latencies_by_group, report_done, wrep,
                 wreqs, wtmp, handlerVars, sniffer, mainVars, sinkBroken, outVars, hist>>

\* self._report_done = True, then the table is computed and printed
LatencyPrinter_report_print ==
  /\ engine = "Latency"
  /\ Running
  /\ wpc = "report_print"
  /\ report_done' = TRUE
  /\ IF ReportRaises
     THEN /\ wpc' = "crashed"
          /\ UNCHANGED summaries
     ELSE /\ wpc' = "done"
          /\ summaries' = Append(summaries, latencies_by_group)
  /\ UNCHANGED <<cfgVars, tableVars, seen, requests, latencies_by_group, wrep, wreqs,
                 wtmp, handlerVars, sniffer, mainVars, sinkBroken, stdout, hist>>

\* cancel(): report() by the main thread
LatencyPrinter_cancel_check ==
  /\ engine = "Latency"
  /\ mpc = "cancel"
  /\ mpc' = IF ReportGuard THEN "cancel_seen" ELSE "stop"
  /\ UNCHANGED <<cfgVars, tableVars, aggVars, workerVars, handlerVars, sniffer,
                 interrupted, sinkBroken, outVars, hist>>

LatencyPrinter_cancel_seen ==
  /\ engine = "Latency"
  /\ mpc = "cancel_seen"
  /\ seen' = ReportForcedSeen
  /\ mpc' = "cancel_print"
  /\ UNCHANGED <<cfgVars, tableVars, requests, latencies_by_group, report_done,
                 workerVars, handlerVars, sniffer, interrupted, sinkBroken, outVars, hist>>

\* an exception raised by report() here leaves main() through the except
\* clause: the process ends
LatencyPrinter_cancel_print ==
  /\ engine = "Latency"
  /\ mpc = "cancel_print"
  /\ report_done' = TRUE
  /\ IF ReportRaises
     THEN /\ mpc' = "exited"
          /\ UNCHANGED summaries
     ELSE /\ mpc' = "stop"
          /\ summaries' = Append(summaries, latencies_by_group)
  /\ UNCHANGED <<cfgVars, tableVars, seen, requests, latencies_by_group, workerVars,
                 handlerVars, sniffer, interrupted, sinkBroken, stdout, hist>>

\* ------------------------------------------------------------------- Init
GroupConfigs == {<<"path", 0>>, <<"path", 1>>, <<"type", 0>>, <<"client", 0>>}

InitCount ==
  /\ env = "any"
  /\ engine = "Count"
  /\ loopback = FALSE
  /\ count \in 1..MaxCount
  /\ \E g \in GroupConfigs : group_by = g[1] /\ aggregation_depth = g[2]
  /\ InitCommon

InitLatency ==
  /\ env = "any"
  /\ engine = "Latency"
  /\ loopback = FALSE
  /\ count \in 1..MaxCount
  /\ \E g \in {<<"path", 0>>, <<"client", 0>>} : group_by = g[1] /\ aggregation_depth = g[2]
  /\ InitCommon

\* ------------------------------------------------------------------ specs
DefaultSteps ==
  \/ \E req \in RequestMsgs : DefaultPrinter_request_handler(req)
  \/ \E rep \in ReplyMsgs : DefaultPrinter_reply_handler(rep)
  \/ \E evt \in EventMsgs : DefaultPrinter_event_handler(evt)
  \/ RequestsAppend
  \/ DefaultPrinter_run

UnpairedSteps ==
  \/ \E req \in RequestMsgs : UnpairedPrinter_request_handler(req)
  \/ \E rep \in ReplyMsgs : UnpairedPrinter_reply_handler(rep)
  \/ \E evt \in EventMsgs : UnpairedPrinter_event_handler(evt)
  \/ UnpairedPrinter_run

CountSteps ==
  \/ \E req \in RequestMsgs : CountPrinter_request_handler(req)
  \/ \E rep \in ReplyMsgs : CountPrinter_reply_handler(rep)
  \/ \E evt \in EventMsgs : CountPrinter_event_handler(evt)
  \/ CountPrinter_add_seen
  \/ CountPrinter_run

LatencySteps ==
  \/ \E req \in RequestMsgs : LatencyPrinter_request_handler(req)
  \/ \E rep \in ReplyMsgs : LatencyPrinter_reply_handler(rep)
  \/ \E evt \in EventMsgs : LatencyPrinter_event_handler(evt)
  \/ RequestsAppend
  \/ LatencyPrinter_wait_match
  \/ LatencyPrinter_wait_append
  \/ LatencyPrinter_wait_incr
  \/ LatencyPrinter_wait_exit
  \/ LatencyPrinter_report_check
  \/ LatencyPrinter_report_seen
  \/ LatencyPrinter_report_print
  \/ LatencyPrinter_cancel_check
  \/ LatencyPrinter_cancel_seen
  \/ LatencyPrinter_cancel_print

\* the Default printer, any traffic
NextDefault == DefaultSteps \/ NextMain

SpecDefault == InitDefault /\ [][NextDefault]_vars

\* the Unpaired printer
NextUnpaired == UnpairedSteps \/ NextMain

SpecUnpaired == InitUnpaired /\ [][NextUnpaired]_vars

\* the Unpaired printer with its thread scheduled: run() wakes from its sleep
FairSpecUnpaired ==
  /\ InitUnpaired
  /\ [][NextUnpaired]_vars
  /\ WF_vars(UnpairedPrinter_run)

\* the Count printer
NextCount == CountSteps \/ NextMain

SpecCount == InitCount /\ [][NextCount]_vars

\* the Count printer with its threads scheduled: a handler that has started
\* finishes, and run() wakes from its sleep
FairSpecCount ==
  /\ InitCount
  /\ [][NextCount]_vars
  /\ WF_vars(CountPrinter_add_seen)
  /\ WF_vars(CountPrinter_run)

\* the Latency printer
NextLatency == LatencySteps \/ NextMain

SpecLatency == InitLatency /\ [][NextLatency]_vars

\* the Latency printer with its threads scheduled: run() goes on from wherever
\* it is, and wakes from its sleep when the loop test fails or a reply waits;
\* main() goes on through cancel(), sniffer.stop() and the wait for the
\* sniffer thread.  When the sniffer thread ends is not in this file, and
\* nothing is assumed of it.
FairSpecLatency ==
  /\ InitLatency
  /\ [][NextLatency]_vars
  /\ WF_vars(LatencyPrinter_cancel_check)
  /\ WF_vars(LatencyPrinter_cancel_seen)
  /\ WF_vars(LatencyPrinter_cancel_print)
  /\ WF_vars(MainPollDone)
  /\ WF_vars(MainStopSniffer)
  /\ WF_vars(MainJoinSniffer)
  /\ WF_vars(LatencyPrinter_wait_match)
  /\ WF_vars(LatencyPrinter_wait_append)
  /\ WF_vars(LatencyPrinter_wait_incr)
  /\ WF_vars(LatencyPrinter_wait_exit)
  /\ WF_vars(LatencyPrinter_report_check)
  /\ WF_vars(LatencyPrinter_report_seen)
  /\ WF_vars(LatencyPrinter_report_print)

\* whichever printer main() builds
Init == InitDefault \/ InitUnpaired \/ InitCount \/ InitLatency

Next == DefaultSteps \/ UnpairedSteps \/ CountSteps \/ LatencySteps \/ NextMain

Spec == Init /\ [][Next]_vars

\* the two printers that match replies with requests
InitMatching == InitDefault \/ InitLatency

NextMatching == DefaultSteps \/ LatencySteps \/ NextMain

SpecMatching == InitMatching /\ [][NextMatching]_vars

\* The Default printer off the loopback, fed requests of distinct
\* (client, xid) pairs, each followed, at some point, by its one reply.
InitPairs ==
  /\ env = "pairs"
  /\ engine = "Default"
  /\ loopback = FALSE
  /\ count = 0
  /\ group_by = "path"
  /\ aggregation_depth = 0
  /\ InitCommon

SameKey(m1, m2) == m1.client = m2.client /\ m1.xid = m2.xid

Delivered(kind) == SelectSeq(hist, LAMBDA m : m.kind = kind)

PairsRequest ==
  \E req \in RequestMsgs :
    /\ req.opcode # CLOSE
    /\ \A i \in 1..Len(hist) : ~SameKey(hist[i], req)
    /\ Len(Delivered("request")) < MaxPairs
    /\ DefaultPrinter_request_handler(req)

PairsReply ==
  \E rep \in ReplyMsgs :
    /\ \E i \in 1..Len(hist) : hist[i].kind = "request" /\ SameKey(hist[i], rep)
    /\ \A i \in 1..Len(hist) : ~(hist[i].kind = "reply" /\ SameKey(hist[i], rep))
    /\ DefaultPrinter_reply_handler(rep)

NextPairs ==
  \/ PairsRequest
  \/ PairsReply
  \/ RequestsAppend
  \/ DefaultPrinter_run
  \/ NextMain

SpecPairs == InitPairs /\ [][NextPairs]_vars

\* ----------------------------------------------------------------- claims
\* what the claims read off the state
TableReqs ==
  UNION {UNION {SeqToSet(requests_by_client[c][x]) : x \in DOMAIN requests_by_client[c]} :
         c \in DOMAIN requests_by_client}

PrinterWrites == SelectSeq(stdout, LAMBDA w : w.who = "printer")

SnifferWrites == SelectSeq(stdout, LAMBDA w : w.who = "sniffer")

Emitted == UNION {SeqToSet(stdout[i].msgs) : i \in 1..Len(stdout)}

LastOf(q) == q[Len(q)]

\* the delivered request a reply answers, when there is exactly one
RequestFor(rep) == CHOOSE q \in SeqToSet(Delivered("request")) : SameKey(q, rep)

\* C1: the Default printer off the loopback, fed requests of distinct
\* (client, xid) pairs followed by their replies, writes one group per reply,
\* in the order the replies arrived, each group the request and then its
\* reply: the replies of the groups written so far, followed by the replies
\* still queued, are the replies delivered, and only the last write can have
\* failed.
C1_PairedGroupsInReplyOrder ==
  LET groups == PrinterWrites
  IN /\ \A i \in 1..Len(groups) :
          /\ Len(groups[i].msgs) = 2
          /\ groups[i].msgs[2].kind = "reply"
          /\ groups[i].msgs[1] = RequestFor(groups[i].msgs[2])
          /\ (i < Len(groups) => groups[i].ok)
     /\ [i \in 1..Len(groups) |-> groups[i].msgs[2]] \o replies = Delivered("reply")

\* two groups written, the replies having arrived in the other order than
\* the requests
C1_Witness ==
  /\ env = "pairs"
  /\ Len(PrinterWrites) = 2
  /\ PrinterWrites[1].ok /\ PrinterWrites[2].ok
  /\ PrinterWrites[1].msgs[1].id > PrinterWrites[2].msgs[1].id

\* C3: on the loopback, an iteration of the Default printer's loop that pops
\* two or more requests writes one group, the first of them and the reply;
\* the others are in the table no more, and a request that is neither in the
\* table, nor being added, nor written is not written by any later step.
C3_Step ==
  (/\ loopback
   /\ engine = "Default"
   /\ replies # <<>>
   /\ replies' = Tail(replies)) =>
    LET rep == Head(replies)
        reqs == DictGet(DictGet(requests_by_client, rep.client, EmptyDict), rep.xid, <<>>)
    IN Len(reqs) >= 2 =>
         /\ Len(stdout') = Len(stdout) + 1
         /\ LastOf(stdout').msgs = <<reqs[1], rep>>
         /\ \A i \in 2..Len(reqs) : reqs[i] \notin TableReqs'

C3_Discarded(q) == q.kind = "request" /\ q \notin TableReqs /\ q # hreq /\ q \notin Emitted

C3_LoopbackDedupe ==
  [][/\ C3_Step
     /\ loopback => \A i \in 1..Len(hist) : C3_Discarded(hist[i]) => hist[i] \notin Emitted']_vars

\* a group was written on the loopback while a second request of its pair,
\* delivered before the reply, was buffered with the first: it is gone
C3_Witness ==
  /\ loopback
  /\ \E i \in 1..Len(stdout) : \E j \in 1..Len(hist) :
       /\ stdout[i].who = "printer"
       /\ hist[j].kind = "request"
       /\ SameKey(hist[j], stdout[i].msgs[1])
       /\ hist[j].id > stdout[i].msgs[1].id
       /\ hist[j].id < stdout[i].msgs[2].id
       /\ C3_Discarded(hist[j])

\* C4: a close request is written by request_handler in the step that
\* receives it, alone; it is never in the table nor being added to it, and
\* no group written by the loop holds it.
C4_CloseNeverBuffered ==
  engine = "Default" =>
    \A i \in 1..Len(hist) :
      LET q == hist[i]
      IN (q.kind = "request" /\ q.opcode = CLOSE) =>
           /\ \E j \in 1..Len(stdout) : stdout[j].who = "sniffer" /\ stdout[j].msgs = <<q>>
           /\ q \notin TableReqs
           /\ q # hreq
           /\ \A j \in 1..Len(stdout) :
                stdout[j].who = "printer" => q \notin SeqToSet(stdout[j].msgs)

\* a close request of (c1, 1) was delivered, and later a reply of (c1, 1)
\* was written in a group
C4_Witness ==
  /\ engine = "Default"
  /\ \E i \in 1..Len(hist) : \E j \in 1..Len(stdout) :
       /\ hist[i].kind = "request" /\ hist[i].opcode = CLOSE
       /\ stdout[j].who = "printer"
       /\ SameKey(LastOf(stdout[j].msgs), hist[i])
       /\ LastOf(stdout[j].msgs).id > hist[i].id

\* C2: the Latency printer's summary is printed once, never twice, whichever
\* way report() by run() and report() by cancel() interleave; it has been
\* printed when run() has returned.
C2_ReportExactlyOnce ==
  engine = "Latency" =>
    /\ Len(summaries) <= 1
    /\ (wpc = "done" => Len(summaries) = 1)

\* C5: in a run of the Count printer that is not interrupted, once count
\* requests and events have been delivered, run() leaves its loop, prints
\* and returns; what it prints is one summary whose tallies sum to count.
Qualifying == Len(Delivered("request")) + Len(Delivered("event"))

RECURSIVE TallySum(_)
TallySum(rows) == IF rows = <<>> THEN 0 ELSE Head(rows)[2] + TallySum(Tail(rows))

C5_CountTerminates ==
  /\ [](wpc = "done" => (Len(summaries) = 1 /\ TallySum(summaries[1]) = count))
  /\ [](wpc # "done" => summaries = <<>>)
  /\ (Qualifying >= count) ~> (wpc = "done" \/ interrupted)

\* run() has returned in a run with no interrupt, count being 2 or more, a
\* message more than count having been delivered and two groups printed
C5_Witness ==
  /\ engine = "Count"
  /\ wpc = "done"
  /\ ~interrupted
  /\ count >= 2
  /\ Len(hist) > count
  /\ Len(summaries) = 1
  /\ TallySum(summaries[1]) = count

\* C6: in the Count and the Latency printer, once main() has left its try
\* block (run() has returned, or the interrupt was handled by cancel()), the
\* summary has been printed exactly once.
C6_SummaryOnceAfterRun ==
  (engine \in {"Count", "Latency"} /\ mpc \in {"stop", "join", "exited"}) =>
    Len(summaries) = 1

\* C7: once the interrupt is being handled (cancel() is running or has run),
\* the sniffer hands no message to a handler.
C7_NoCallbackOnceCancelling == [][interrupted => hist' = hist]_vars

C9_Unmatched(rep) ==
  \A q \in TableReqs : ~SameKey(q, rep)

C9_UnmatchedReplyDropped ==
  [][(/\ engine = "Latency"
      /\ replies # <<>>
      /\ replies' = Tail(replies)
      /\ C9_Unmatched(Head(replies))) =>
       /\ seen' = seen
       /\ latencies_by_group' = latencies_by_group
       /\ TableReqs' = TableReqs
       /\ wpc' = "loop"
       /\ summaries' = summaries]_vars

\* a reply of (c1, 1) was dropped while a request of (c2, 1) was buffered,
\* which it still is
C9_Witness ==
  /\ engine = "Latency"
  /\ wpc = "loop"
  /\ seen = 0
  /\ latencies_by_group = EmptyDict
  /\ replies = <<>>
  /\ \E i \in 1..Len(hist) : \E q \in TableReqs :
       /\ hist[i].kind = "reply"
       /\ hist[i].id > q.id
       /\ hist[i].xid = q.xid
       /\ hist[i].client # q.client

\* C10, as claimed: after a write has failed, nothing more is written.
C10_NoWriteAfterFailure == \A i \in 1..Len(stdout) : i < Len(stdout) => stdout[i].ok

\* C10, amended: after a write by the loop has failed, the loop has ended
\* and the loop writes no more; the Unpaired printer, whose handlers never
\* write, writes nothing after the failure.  (The Default printer's
\* request_handler and event_handler go on writing close requests and
\* events.)
C10_LoopEndsAtItsFailure ==
  /\ \A i \in 1..Len(stdout) :
       (stdout[i].who = "printer" /\ ~stdout[i].ok) =>
         /\ wpc = "done"
         /\ \A j \in 1..Len(stdout) : j > i => stdout[j].who # "printer"
  /\ engine = "Unpaired" => C10_NoWriteAfterFailure

\* a write by the Default printer's loop failed, the loop ended, and a
\* handler wrote after it
C10_Witness ==
  /\ engine = "Default"
  /\ wpc = "done"
  /\ \E i, j \in 1..Len(stdout) :
       /\ i < j
       /\ stdout[i].who = "printer" /\ ~stdout[i].ok
       /\ stdout[j].who = "sniffer"

\* C11: the Unpaired printer's loop writes the messages its handlers were
\* given one per write, each once, in the order of their delivery, whatever
\* their kind: the messages written so far, followed by the messages still
\* queued, are the messages delivered.  Unless the sink fails (the loop then
\* ends) or the run is interrupted (the process then ends), the n-th message
\* delivered is written.
C11_EmittedOnceInOrder ==
  /\ [](engine = "Unpaired" =>
          /\ \A i \in 1..Len(stdout) : stdout[i].who = "printer" /\ Len(stdout[i].msgs) = 1
          /\ [i \in 1..Len(stdout) |-> stdout[i].msgs[1]] \o messages = hist)
  /\ \A n \in 1..MaxMsgs :
       (Len(hist) >= n) ~> (Len(stdout) >= n \/ sinkBroken \/ interrupted)

\* a request, a reply and an event were delivered in some order, two of them
\* queued together, and all were written
C11_Witness ==
  /\ engine = "Unpaired"
  /\ Len(stdout) = 3
  /\ \A i \in 1..3 : stdout[i].ok
  /\ {stdout[i].msgs[1].kind : i \in 1..3} = {"request", "reply", "event"}
  /\ messages = <<>>
  /\ ~interrupted

\* every sample of every group
Samples == UNION {SeqToSet(latencies_by_group[k]) : k \in DOMAIN latencies_by_group}

\* the timestamps of the messages delivered never go back
ClockForward ==
  \A i, j \in 1..Len(hist) : i <= j => hist[i].timestamp <= hist[j].timestamp

\* C12: while the timestamps of the messages delivered to the Latency
\* printer have never gone back, no sample of any group is negative.
C12_SamplesNonNegative ==
  (engine = "Latency" /\ ClockForward) => \A s \in Samples : s >= 0

\* the number of samples over all groups
RECURSIVE SampleCount(_)
SampleCount(d) ==
  IF DOMAIN d = {}
  THEN 0
  ELSE LET k == CHOOSE x \in DOMAIN d : TRUE
       IN Len(d[k]) + SampleCount(DictDel(d, k))

\* C13: in the Latency printer a matched reply adds one sample, the reply's
\* timestamp less that of the first request of the list popped, to the group
\* of that request, and then one to the count of matched pairs; while
\* cancel() has not been called the count is the number of samples (one less
\* between the append and the increment) and is at most N.
C13_MatchedStep ==
  /\ (wpc = "loop" /\ wpc' = "append") =>
       /\ wreqs' = RequestsPopped(Head(replies).client, Head(replies).xid)
       /\ wrep' = Head(replies)
       /\ SampleCount(latencies_by_group') = SampleCount(latencies_by_group)
  /\ (wpc = "append" /\ wpc' = "incr") =>
       LET key == key_of(wreqs[1], group_by, aggregation_depth)
       IN /\ latencies_by_group' =
               DictSet(latencies_by_group, key,
                       Append(latencies_by_group[key], wrep.timestamp - wreqs[1].timestamp))
          /\ seen' = seen
  /\ (wpc = "incr" /\ wpc' = "loop" /\ ~interrupted) =>
       /\ seen' = seen + 1
       /\ latencies_by_group' = latencies_by_group

RECURSIVE TallyTotal(_)
TallyTotal(d) ==
  IF DOMAIN d = {}
  THEN 0
  ELSE LET k == CHOOSE x \in DOMAIN d : TRUE
       IN d[k] + TallyTotal(DictDel(d, k))

\* C14: in the Count printer the total of accepted samples, and the sum of
\* the tallies, never exceed N; no step lowers a tally or the total; a
\* request or an event delivered once the total is N changes no tally and
\* not the total, and a reply delivered in any state changes none either.
C14_Delivery(kind) == Len(hist') = Len(hist) + 1 /\ LastOf(hist').kind = kind

C14_Step ==
  /\ seen' >= seen
  /\ \A k \in DOMAIN requests : k \in DOMAIN requests' /\ requests'[k] >= requests[k]
  /\ ((C14_Delivery("request") \/ C14_Delivery("event")) /\ seen >= count) =>
       /\ requests' = requests
       /\ seen' = seen
       /\ hpc' = "idle"
  /\ C14_Delivery("reply") =>
       /\ requests' = requests
       /\ seen' = seen
       /\ hpc' = "idle"

C14_BudgetNeverExceeded ==
  /\ [](engine = "Count" =>
          /\ seen <= count
          /\ TallyTotal(requests) <= count
          /\ TallyTotal(requests) = seen + (IF hpc = "counting" THEN 1 ELSE 0))
  /\ [][engine = "Count" => C14_Step]_vars

\* the budget is used up, a reply was delivered, and the last message
\* delivered, a request or an event over the budget, was ignored
C14_Witness ==
  /\ engine = "Count"
  /\ seen = count
  /\ hpc = "idle"
  /\ TallyTotal(requests) = count
  /\ Qualifying > count
  /\ Len(Delivered("reply")) > 0
  /\ LastOf(hist).kind \in {"request", "event"}

\* cancel() has returned to main(), which has not returned yet
CancelReturned == engine = "Latency" /\ interrupted /\ mpc \in {"stop", "join"}

C16_PopStep == replies # <<>> /\ replies' = Tail(replies)

\* C16: the step of the Default printer's loop that takes a reply takes the
\* whole list buffered under the reply's client and xid out of the table,
\* and nothing else; a reply that finds no list is dropped, nothing being
\* written; no other step takes a request out of the table.
C16_Step ==
  IF C16_PopStep
  THEN LET rep == Head(replies)
           reqs == RequestsPopped(rep.client, rep.xid)
       IN /\ TableReqs \ TableReqs' = SeqToSet(reqs)
          /\ \A q \in TableReqs' : ~SameKey(q, rep)
          /\ reqs = <<>> => (stdout' = stdout /\ wpc' = wpc)
          /\ reqs # <<>> => Len(stdout') = Len(stdout) + 1
  ELSE TableReqs \subseteq TableReqs'

C16_PopTakesWholeList == [][engine = "Default" => C16_Step]_vars

\* a request, its reply and a second reply of the same client and xid were
\* delivered in this order; one group was written and the second reply is gone
C16_Witness ==
  /\ engine = "Default"
  /\ replies = <<>>
  /\ Len(PrinterWrites) = 1
  /\ \E i, j, k \in 1..Len(hist) :
       /\ i < j /\ j < k
       /\ hist[i].kind = "request" /\ hist[i].opcode # CLOSE
       /\ hist[j].kind = "reply" /\ hist[k].kind = "reply"
       /\ SameKey(hist[i], hist[j]) /\ SameKey(hist[i], hist[k])
       /\ PrinterWrites[1].msgs = <<hist[i], hist[j]>>

\* the list buffered under a client and an xid
C17_ListAt(c, x) == DictGet(DictGet(requests_by_client, c, EmptyDict), x, <<>>)

\* C17: in the Default and the Latency printer, the requests written in a
\* group, and the requests a sample is taken from, have the client and the
\* xid of the reply they go with; the step that takes a reply leaves the
\* list of every other (client, xid), another client's list under the same
\* xid included, as it was.
C17_Step ==
  C16_PopStep =>
    LET rep == Head(replies)
    IN \A c \in DOMAIN requests_by_client : \A x \in DOMAIN requests_by_client[c] :
         (c # rep.client \/ x # rep.xid) => C17_ListAt(c, x)' = C17_ListAt(c, x)

C17_MatchedByClientAndXid ==
  /\ [](engine \in {"Default", "Latency"} =>
          /\ \A i \in 1..Len(stdout) : \A q \in SeqToSet(stdout[i].msgs) :
               SameKey(q, LastOf(stdout[i].msgs))
          /\ \A i \in 1..Len(wreqs) : SameKey(wreqs[i], wrep))
  /\ [][(engine \in {"Default", "Latency"}) => C17_Step]_vars

\* a reply of one client was matched with its request while a request of
\* another client under the same xid, delivered before the reply, was
\* buffered, which it still is
C17_Witness ==
  /\ \/ engine = "Default" /\ Len(PrinterWrites) = 1 /\ Len(PrinterWrites[1].msgs) = 2
     \/ engine = "Latency" /\ wpc = "incr"
  /\ replies = <<>>
  /\ \E i, j, k \in 1..Len(hist) :
       /\ i < k /\ j < k
       /\ hist[i].kind = "request" /\ hist[j].kind = "request" /\ hist[k].kind = "reply"
       /\ SameKey(hist[i], hist[k])
       /\ hist[j].xid = hist[k].xid /\ hist[j].client # hist[k].client
       /\ hist[i] \notin TableReqs
       /\ hist[j] \in TableReqs

\* C18: every request the Default printer's loop writes in a group was
\* delivered before the reply of that group.
C18_RequestsPrecedeReply ==
  engine = "Default" =>
    \A i \in 1..Len(stdout) :
      stdout[i].who = "printer" =>
        \A n \in 1..(Len(stdout[i].msgs) - 1) :
          stdout[i].msgs[n].id < LastOf(stdout[i].msgs).id

\* C19: off the loopback, every request, no close, that the Default
\* printer's request_handler was given is being added to the table, is in
\* the table, or has been written in a group.
C19_NoRequestLost ==
  (engine = "Default" /\ ~loopback) =>
    \A i \in 1..Len(hist) :
      (hist[i].kind = "request" /\ hist[i].opcode # CLOSE) =>
        \/ hist[i] = hreq
        \/ hist[i] \in TableReqs
        \/ hist[i] \in Emitted

\* C20: when report() computes the table, by run() or by cancel(), no group
\* of the Latency printer is empty.
C20_ReportComputes ==
  \/ wpc = "report_print" /\ wpc' # wpc
  \/ mpc = "cancel_print" /\ mpc' # mpc

C20_NoEmptyGroupInReport ==
  [][(engine = "Latency" /\ C20_ReportComputes) => ~ReportRaises]_vars

====
